---------------------------- MODULE Spec2Model ----------------------------
(***************************************************************************)
(* A model of pyrolite/ext/alphamelts/tables.py: the MeltsOutput object    *)
(* built from the eight alphaMELTS table files of one experiment           *)
(* directory, get_experiments_summary over a list of directories and       *)
(* write_summary_phaselist.                                                *)
(*                                                                         *)
(* A Python str is a sequence of one-character strings; None is kept       *)
(* apart from every str by the option encoding None / Some(s).  Files are  *)
(* their raw text.  A DataFrame is abstracted to its column labels and its *)
(* number of rows: cell values (the Temperature conversion of read_table,  *)
(* the Mg-number column added when both MgO and FeO are present) are not   *)
(* represented, and no modelled file carries an MgO or FeO column.         *)
(***************************************************************************)
EXTENDS Integers, Sequences, FiniteSets, TLC

(***************************************************************************)
(* Bounds of the model.                                                    *)
(***************************************************************************)
\* Lines after the title line of an enumerated Phase_main_tbl.txt.
MaxLines == 6
\* Directories handed to get_experiments_summary.
MaxDirs == 3

(***************************************************************************)
(* Python str operations, on sequences of characters.                      *)
(***************************************************************************)
NL == "\n"
CR == "\r"
SP == " "
TAB == "\t"
Whitespace == {SP, NL, CR, TAB}

\* A str, and a list of str
Str == Seq(STRING)
StrList == Seq(Seq(STRING))

\* Evaluates x once and gives F of its value
Let(x, F(_)) == CHOOSE r \in {F(v) : v \in {x}} : TRUE

\* s[i:j] with 0-based, already clamped 0 <= i <= j <= len(s)
Slice(s, i, j) == SubSeq(s, i + 1, j)

\* s.startswith(p, i), i 0-based
StartsAt(s, p, i) ==
    /\ i + Len(p) <= Len(s)
    /\ \A k \in 1..Len(p) : s[i + k] = p[k]

\* s.find(p, i): the lowest 0-based index from i on where p occurs in s, -1
\* when none
FindFrom[s \in Str, p \in Str, i \in Nat] ==
    IF i + Len(p) > Len(s) THEN -1
    ELSE IF StartsAt(s, p, i) THEN i
    ELSE FindFrom[s, p, i + 1]

\* s.find(p)
Find(s, p) == FindFrom[s, p, 0]

\* s.split(sep) for a non-empty separator
SplitOnRec[s \in Str, sep \in Str] ==
    Let(Find(s, sep), LAMBDA i :
        IF i = -1 THEN <<s>>
        ELSE <<Slice(s, 0, i)>> \o SplitOnRec[Slice(s, i + Len(sep), Len(s)), sep])

SplitOn(s, sep) == SplitOnRec[s, sep]

\* The lowest 1-based index from i on of a character of s that is in set, 0
\* when none
FirstIn[s \in Str, set \in SUBSET STRING, i \in Nat] ==
    IF i > Len(s) THEN 0
    ELSE IF s[i] \in set THEN i
    ELSE FirstIn[s, set, i + 1]

\* re.split(r"[\n\r]", s)
ReSplitLinesRec[s \in Str] ==
    Let(FirstIn[s, {NL, CR}, 1], LAMBDA i :
        IF i = 0 THEN <<s>>
        ELSE <<SubSeq(s, 1, i - 1)>> \o ReSplitLinesRec[SubSeq(s, i + 1, Len(s))])

ReSplitLines(s) == ReSplitLinesRec[s]

\* s.replace(old, new) for a non-empty old
ReplaceRec[s \in Str, old \in Str, new \in Str] ==
    Let(Find(s, old), LAMBDA i :
        IF i = -1 THEN s
        ELSE Slice(s, 0, i) \o new \o ReplaceRec[Slice(s, i + Len(old), Len(s)), old, new])

Replace(s, old, new) == ReplaceRec[s, old, new]

\* s.lstrip(), s.rstrip(), s.strip()
LStripRec[s \in Str] ==
    IF s # <<>> /\ Head(s) \in Whitespace THEN LStripRec[Tail(s)] ELSE s

RStripRec[s \in Str] ==
    IF s # <<>> /\ s[Len(s)] \in Whitespace THEN RStripRec[SubSeq(s, 1, Len(s) - 1)] ELSE s

LStrip(s) == LStripRec[s]
RStrip(s) == RStripRec[s]
Strip(s) == RStripRec[LStripRec[s]]

\* s.split(): the maximal runs of non-whitespace characters
SplitWsRec[s \in Str] ==
    Let(LStrip(s), LAMBDA t :
        IF t = <<>> THEN <<>>
        ELSE Let(FirstIn[t, Whitespace, 1], LAMBDA i :
                IF i = 0 THEN <<t>>
                ELSE <<SubSeq(t, 1, i - 1)>> \o SplitWsRec[SubSeq(t, i, Len(t))]))

SplitWs(s) == SplitWsRec[s]

\* sep.join(parts)
JoinRec[parts \in StrList, sep \in Str] ==
    IF parts = <<>> THEN <<>>
    ELSE IF Len(parts) = 1 THEN parts[1]
    ELSE parts[1] \o sep \o JoinRec[Tail(parts), sep]

Join(parts, sep) == JoinRec[parts, sep]

\* " " * n
Spaces(n) == [k \in 1..n |-> SP]

\* f.readline() on a file just opened: the text up to and with its first newline
ReadLine(text) ==
    Let(Find(text, <<NL>>), LAMBDA i : IF i = -1 THEN text ELSE Slice(text, 0, i + 1))

\* Optional values: None and a present value
None == <<>>
Some(v) == <<v>>


(***************************************************************************)
(* Files, exceptions and pandas values.                                    *)
(***************************************************************************)
\* A path of the directory: whether a file is there, and its raw text.
NoFile == [exists |-> FALSE, text |-> <<>>]
File(text) == [exists |-> TRUE, text |-> text]

NoExc == "none"

\* None, and pd.DataFrame(): columns is the set of column labels, zeros tells
\* whether numeric zeros may still stand for missing values.
NoneValue == [type |-> "NoneType", columns |-> {}, nrows |-> 0, zeros |-> FALSE]
EmptyDataFrame == [type |-> "DataFrame", columns |-> {}, nrows |-> 0, zeros |-> FALSE]

\* What a call gives back: the exception it raised (NoExc when it returned),
\* the value returned and the object as the call left it.
Return(v, self) == [exc |-> NoExc, ret |-> v, self |-> self]
Raise(e, self) == [exc |-> e, ret |-> NoneValue, self |-> self]

\* The lines of seq from position n + 1 on
DropFirst(seq, n) == IF n >= Len(seq) THEN <<>> ELSE SubSeq(seq, n + 1, Len(seq))

NonBlank(line) == line # <<>>

\* The set of the items of a list
Elements(seq) == {seq[i] : i \in 1..Len(seq)}

\* pd.read_csv(text, sep=" ", skiprows=n) followed by dropna(how="all", axis=1):
\* the first n raw lines are skipped, blank lines are skipped, the first line
\* left is the header and the others are rows; with no line left pandas
\* raises EmptyDataError.  A label that is empty gives an unnamed column that
\* holds no data and is dropped.
ReadCsv(text, n) ==
    Let(SelectSeq(DropFirst(SplitOn(text, <<NL>>), n), NonBlank), LAMBDA rest :
        IF rest = <<>>
        THEN [exc |-> "EmptyDataError", df |-> EmptyDataFrame]
        ELSE [exc |-> NoExc,
              df  |-> [type |-> "DataFrame",
                       columns |-> Elements(SplitOn(rest[1], <<SP>>)) \ {<<>>},
                       nrows |-> Len(rest) - 1,
                       zeros |-> TRUE]])

\* zero_to_nan of pyrolite.util.pd: numeric zeros become missing values.
ZeroToNan(table) == [table EXCEPT !.zeros = FALSE]

(***************************************************************************)
(* MeltsOutput.                                                            *)
(***************************************************************************)
\* A dict with no key
EmptyDict == [k \in {} |-> NoneValue]

\* d[k] = v
DictSet(d, k, v) == [x \in DOMAIN d \cup {k} |-> IF x = k THEN v ELSE d[x]]

\* One logger.debug record
LogRecord(msg, title, expected, path) ==
    [msg |-> msg, title |-> title, expected |-> expected, path |-> path]

\* The object after the assignments that open __init__ (majors and traces stay
\* empty and kelvin only touches cell values: none is kept).  attrs holds the
\* attributes set by setattr, log the debug records logged on its behalf and
\* calls the arguments of its _set_title calls so far.
NewOutput ==
    [title |-> None, phasenames |-> {}, phases |-> EmptyDict,
     attrs |-> EmptyDict, log |-> <<>>, calls |-> <<>>]

\* The (name, table, load) triples of __init__, in its order
Loads ==
    << [name |-> "bulkcomp",   table |-> "Bulk_comp_tbl.txt",   load |-> "_read_bulkcomp"],
       [name |-> "solidcomp",  table |-> "Solid_comp_tbl.txt",  load |-> "_read_solidcomp"],
       [name |-> "liquidcomp", table |-> "Liquid_comp_tbl.txt", load |-> "_read_liquidcomp"],
       [name |-> "phasemass",  table |-> "Phase_mass_tbl.txt",  load |-> "_read_phasemass"],
       [name |-> "phasevol",   table |-> "Phase_vol_tbl.txt",   load |-> "_read_phasevol"],
       [name |-> "tracecomp",  table |-> "Trace_main_tbl.txt",  load |-> "_read_trace"],
       [name |-> "system",     table |-> "System_main_tbl.txt", load |-> "_read_systemmain"],
       [name |-> "phasemain",  table |-> "Phase_main_tbl.txt",  load |-> "_read_phasemain"] >>

NLoads == Len(Loads)

TableNames == {Loads[i].name : i \in 1..NLoads}
FileNames == {Loads[i].table : i \in 1..NLoads}

\* _set_title as it would be if the last title won
_set_title_last_wins(self, title) ==
    IF self.title = None \/ Some(title) = self.title
    THEN [self EXCEPT !.title = Some(title), !.calls = Append(@, title)]
    ELSE [self EXCEPT !.title = Some(title), !.calls = Append(@, title),
                      !.log = Append(@,
                          LogRecord("File with conflicting title found",
                                    Some(title), self.title, ""))]

\* _set_title; calls keeps the titles it was called with
_set_title(self, title) ==
    IF self.title = None
    THEN [self EXCEPT !.title = Some(title), !.calls = Append(@, title)]
    ELSE IF Some(title) = self.title
         THEN [self EXCEPT !.calls = Append(@, title)]
         ELSE [self EXCEPT !.calls = Append(@, title),
                           !.log = Append(@,
                   LogRecord("File with conflicting title found",
                             Some(title), self.title, ""))]

TitlePrefix == <<"T", "i", "t", "l", "e", ":", " ">>

\* _get_table_title, on the text of a file that opened
_get_table_title(text) == Strip(Replace(ReadLine(text), TitlePrefix, <<>>))

\* The test of read_table: path.exists and path.is_file are the bound
\* methods, not calls of them, and a bound method is true of any path.
PathTest(file) == TRUE

\* read_table(filepath, skiprows=skiprows); path names the file in the log
read_table(self, file, path, skiprows) ==
    IF PathTest(file)
    THEN IF ~file.exists
         THEN Raise("FileNotFoundError", self)
         ELSE Let(_set_title(self, _get_table_title(file.text)), LAMBDA titled :
                  Let(ReadCsv(file.text, skiprows), LAMBDA csv :
                      IF csv.exc # NoExc
                      THEN Raise(csv.exc, titled)
                      ELSE Return(csv.df, titled)))
    ELSE Return(NoneValue,
                [self EXCEPT !.log = Append(@,
                    LogRecord("Expected file does not exist", None, None, path))])

\* The column labels _read_phasemass and _read_phasevol leave out
Pressure == <<"P", "r", "e", "s", "s", "u", "r", "e">>
Temperature == <<"T", "e", "m", "p", "e", "r", "a", "t", "u", "r", "e">>
Mass == <<"m", "a", "s", "s">>
Volume == <<"V">>
Structural == {Pressure, Temperature, Mass, Volume}

\* _read_solidcomp, _read_liquidcomp, _read_bulkcomp and _read_systemmain
_read_solidcomp(self, file, path) ==
    Let(read_table(self, file, path, 3), LAMBDA r :
        IF r.exc # NoExc THEN r ELSE Return(ZeroToNan(r.ret), r.self))

_read_liquidcomp(self, file, path) ==
    Let(read_table(self, file, path, 3), LAMBDA r :
        IF r.exc # NoExc THEN r ELSE Return(ZeroToNan(r.ret), r.self))

_read_bulkcomp(self, file, path) ==
    Let(read_table(self, file, path, 3), LAMBDA r :
        IF r.exc # NoExc THEN r ELSE Return(ZeroToNan(r.ret), r.self))

_read_systemmain(self, file, path) ==
    Let(read_table(self, file, path, 3), LAMBDA r :
        IF r.exc # NoExc THEN r ELSE Return(ZeroToNan(r.ret), r.self))

\* _read_phasevol as it would be if it assigned phasenames instead of adding
\* to it
_read_phasevol_assign(self, file, path) ==
    Let(read_table(self, file, path, 3), LAMBDA r :
        IF r.exc # NoExc THEN r
        ELSE IF r.ret.type # "DataFrame" THEN Raise("AttributeError", r.self)
        ELSE Return(ZeroToNan(r.ret),
                    [r.self EXCEPT !.phasenames = r.ret.columns \ Structural]))

\* _read_phasemass and _read_phasevol; table.columns of None raises
\* AttributeError
_read_phasemass(self, file, path) ==
    Let(read_table(self, file, path, 3), LAMBDA r :
        IF r.exc # NoExc THEN r
        ELSE IF r.ret.type # "DataFrame" THEN Raise("AttributeError", r.self)
        ELSE Return(ZeroToNan(r.ret),
                    [r.self EXCEPT !.phasenames = @ \cup (r.ret.columns \ Structural)]))

_read_phasevol(self, file, path) ==
    Let(read_table(self, file, path, 3), LAMBDA r :
        IF r.exc # NoExc THEN r
        ELSE IF r.ret.type # "DataFrame" THEN Raise("AttributeError", r.self)
        ELSE Return(ZeroToNan(r.ret),
                    [r.self EXCEPT !.phasenames = @ \cup (r.ret.columns \ Structural)]))

\* _read_trace: pass
_read_trace(self, file, path) == Return(NoneValue, self)

\* The split as it would be without the [1:] that drops the header block
PhaseBlocksWithHeader(text) == SplitOn(text, <<NL, NL>>)

\* f.read().split("\n\n")[1:]
PhaseBlocks(text) == Tail(SplitOn(text, <<NL, NL>>))

\* The body of the for loop of _read_phasemain on the blocks from data[k] on.
\* lines[0].split()[0] raises IndexError when the first line holds no token;
\* no modelled block has a formula column.
RECURSIVE PhaseLoop(_, _, _)
PhaseLoop(self, data, k) ==
    IF k > Len(data) THEN Return(NoneValue, self)
    ELSE Let(ReSplitLines(data[k]), LAMBDA lines :
             Let(SplitWs(lines[1]), LAMBDA toks :
                 IF toks = <<>> THEN Raise("IndexError", self)
                 ELSE Let(ReadCsv(Join(Tail(lines), <<NL>>), 0), LAMBDA csv :
                          IF csv.exc # NoExc THEN Raise(csv.exc, self)
                          ELSE PhaseLoop([self EXCEPT !.phases =
                                             DictSet(@, Strip(toks[1]), ZeroToNan(csv.df))],
                                         data, k + 1))))

\* _read_phasemain as it would be if it stored its tables only once every
\* block was read
_read_phasemain_atomic(self, file, path) ==
    IF ~file.exists THEN Raise("FileNotFoundError", self)
    ELSE Let(PhaseLoop(self, PhaseBlocks(file.text), 1), LAMBDA r :
             IF r.exc # NoExc THEN Raise(r.exc, self) ELSE r)

\* _read_phasemain: it returns nothing, so None
_read_phasemain(self, file, path) ==
    IF ~file.exists THEN Raise("FileNotFoundError", self)
    ELSE PhaseLoop(self, PhaseBlocks(file.text), 1)

\* load(tpath) for the loader named load
Load(load, self, file, path) ==
    CASE load = "_read_bulkcomp" -> _read_bulkcomp(self, file, path)
      [] load = "_read_solidcomp" -> _read_solidcomp(self, file, path)
      [] load = "_read_liquidcomp" -> _read_liquidcomp(self, file, path)
      [] load = "_read_phasemass" -> _read_phasemass(self, file, path)
      [] load = "_read_phasevol" -> _read_phasevol(self, file, path)
      [] load = "_read_trace" -> _read_trace(self, file, path)
      [] load = "_read_systemmain" -> _read_systemmain(self, file, path)
      [] load = "_read_phasemain" -> _read_phasemain(self, file, path)

\* The turn of the loop as it would be with no except clause
TryLoadNoExcept(self, i, dir) ==
    Let(Load(Loads[i].load, self, dir[Loads[i].table], Loads[i].table), LAMBDA r :
        IF r.exc = NoExc
        THEN [self |-> [r.self EXCEPT !.attrs = DictSet(@, Loads[i].name, r.ret)],
              escaped |-> NoExc]
        ELSE [self |-> r.self, escaped |-> r.exc])

\* One turn of the for loop of __init__ on triple i of a directory: the try
\* and its except.  escaped is the exception that leaves the loop.
TryLoad(self, i, dir) ==
    Let(Load(Loads[i].load, self, dir[Loads[i].table], Loads[i].table), LAMBDA r :
        IF r.exc = NoExc
        THEN [self |-> [r.self EXCEPT !.attrs = DictSet(@, Loads[i].name, r.ret)],
              escaped |-> NoExc]
        ELSE [self |-> [r.self EXCEPT
                          !.log = Append(@, LogRecord("Error on table import",
                                                      r.self.title, None, Loads[i].table)),
                          !.attrs = DictSet(@, Loads[i].name, EmptyDataFrame)],
              escaped |-> NoExc])

\* MeltsOutput(directory): the loop from triple i on
RECURSIVE InitLoop(_, _, _)
InitLoop(self, i, dir) ==
    IF i > NLoads THEN [self |-> self, escaped |-> NoExc]
    ELSE Let(TryLoad(self, i, dir), LAMBDA r :
             IF r.escaped # NoExc THEN r ELSE InitLoop(r.self, i + 1, dir))

MeltsOutput(dir) == InitLoop(NewOutput, 1, dir)

(***************************************************************************)
(* The files the model is run on.                                          *)
(***************************************************************************)
A == <<"a">>
B == <<"b">>
A_1 == <<"a", "_", "1">>
A_2 == <<"a", "_", "2">>
B_1_x == <<"b", "_", "1", "_", "x">>
_C == <<"_", "c">>

\* A table file: the title line, two more lines that skiprows=3 skips, the
\* line of column labels and one row per column
TableText(title, labels) ==
    TitlePrefix \o title \o <<NL>> \o <<"x", NL>> \o <<NL>>
        \o Join(labels, <<SP>>) \o <<NL>>
        \o Join([i \in 1..Len(labels) |-> <<"1">>], <<SP>>) \o <<NL>>

\* The same file cut after its title line, as read while alphamelts is writing
Truncated(title) == TitlePrefix \o title \o <<NL>>

BulkFiles == {NoFile, File(TableText(A, <<Pressure, Mass>>)), File(Truncated(A))}
SolidFiles == {NoFile, File(TableText(B, <<Pressure>>))}
LiquidFiles == {NoFile, File(<<>>)}
MassFiles ==
    {NoFile, File(TableText(A, <<Pressure, Temperature, Mass, A_1, B>>)),
     File(TableText(B, <<Pressure, A_2, _C>>))}
VolFiles == {NoFile, File(TableText(A, <<Volume, A_1, B_1_x>>))}
TraceFiles == {NoFile, File(TableText(B, <<A>>))}
SystemFiles == {NoFile, File(TableText(A, <<Temperature>>))}

\* Phase_main_tbl.txt from its lines
PhaseText(lines) == Join(lines, <<NL>>)

PhaseMainFiles ==
    {NoFile,
     File(PhaseText(<<TitlePrefix \o A, <<>>, A_1 \o <<SP, "x">>, Pressure, <<"1">>,
                      <<>>, B, Pressure \o <<SP>> \o Mass, <<"1", SP, "2">>, <<>>>>)),
     File(PhaseText(<<TitlePrefix \o A, <<>>, A_1, Pressure, <<"1">>, <<>>, <<>>>>))}

\* A directory: the file at each of the eight paths
Directory(bulk, solid, liquid, mass, vol, trace, system, main) ==
    [f \in FileNames |->
        CASE f = "Bulk_comp_tbl.txt" -> bulk
          [] f = "Solid_comp_tbl.txt" -> solid
          [] f = "Liquid_comp_tbl.txt" -> liquid
          [] f = "Phase_mass_tbl.txt" -> mass
          [] f = "Phase_vol_tbl.txt" -> vol
          [] f = "Trace_main_tbl.txt" -> trace
          [] f = "System_main_tbl.txt" -> system
          [] f = "Phase_main_tbl.txt" -> main]

Directories ==
    {Directory(bulk, solid, liquid, mass, vol, trace, system, main) :
        bulk \in BulkFiles, solid \in SolidFiles, liquid \in LiquidFiles,
        mass \in MassFiles, vol \in VolFiles, trace \in TraceFiles,
        system \in SystemFiles, main \in PhaseMainFiles}

(***************************************************************************)
(* The state: one MeltsOutput under construction over a directory, and the *)
(* read_table calls made on it once it is built.                           *)
(***************************************************************************)
VARIABLES
    dirc,       \* the directory: path -> file
    self,       \* the MeltsOutput
    done,       \* the triples of Loads the loop of __init__ has been through
    escaped,    \* the exception that left __init__, NoExc when none
    ncalls,     \* read_table calls made by the caller so far
    call,       \* the last of them: its path, what it gave and the object before
    folders,    \* the list of directories given to get_experiments_summary
    ix,         \* the place of its loop in that list
    summary,    \* its summary dict, the entries in insertion order
    sexc,       \* the exception that left it, NoExc when none
    written     \* None, then what write_summary_phaselist raised and wrote

objVars == <<dirc, self, done, escaped, ncalls, call>>
sumVars == <<folders, ix, summary, sexc, written>>
vars == <<dirc, self, done, escaped, ncalls, call, folders, ix, summary, sexc, written>>

\* read_table calls a caller makes on a built object
MaxCalls == 1

NoCall == [path |-> "", exc |-> NoExc, ret |-> NoneValue, before |-> NewOutput]

Ready == done = 1..NLoads /\ escaped = NoExc

\* No summary is being made
NoSummary ==
    /\ folders = <<>>
    /\ ix = 1
    /\ summary = <<>>
    /\ sexc = NoExc
    /\ written = None

Init ==
    /\ dirc \in Directories
    /\ self = NewOutput
    /\ done = {}
    /\ escaped = NoExc
    /\ ncalls = 0
    /\ call = NoCall
    /\ NoSummary

\* The turn of the loop of __init__ on triple i
LoadAt(i) ==
    /\ \E r \in {TryLoad(self, i, dirc)} :
          /\ self' = r.self
          /\ escaped' = r.escaped
    /\ done' = done \cup {i}
    /\ UNCHANGED <<dirc, ncalls, call>>
    /\ UNCHANGED sumVars

\* The next turn of the loop of __init__, in the order of Loads
LoadStep ==
    /\ escaped = NoExc
    /\ done # 1..NLoads
    /\ \E i \in (1..NLoads) \ done :
          /\ \A j \in (1..NLoads) \ done : i <= j
          /\ LoadAt(i)

\* output.read_table(dir / path, skiprows=3) by a caller of the built object
ReadTableCall ==
    /\ Ready
    /\ ncalls < MaxCalls
    /\ \E path \in FileNames :
          \E r \in {read_table(self, dirc[path], path, 3)} :
              /\ self' = r.self
              /\ call' = [path |-> path, exc |-> r.exc, ret |-> r.ret,
                          before |-> self]
    /\ ncalls' = ncalls + 1
    /\ UNCHANGED <<dirc, done, escaped>>
    /\ UNCHANGED sumVars

Next == LoadStep \/ ReadTableCall

Spec == Init /\ [][Next]_vars

(***************************************************************************)
(* Construction and read_table: C1 to C4, under Spec.                      *)
(***************************************************************************)
\* The loader of triple i raises on the file of the directory
LoaderRaises(i) ==
    Load(Loads[i].load, NewOutput, dirc[Loads[i].table], Loads[i].table).exc # NoExc

\* C1: no exception leaves __init__; a triple whose loader raises (its file
\* missing, truncated or malformed) has its attribute set to an empty table,
\* and the loop goes on: no triple is skipped, and while one is left no
\* exception has stopped the loop (the guard of LoadStep holds).
C1_InitNeverRaises ==
    /\ escaped = NoExc
    /\ done = 1..Cardinality(done)
    /\ \A i \in done :
          /\ Loads[i].name \in DOMAIN self.attrs
          /\ LoaderRaises(i) => self.attrs[Loads[i].name] = EmptyDataFrame

\* C1's case: a built object over a directory with a missing file and with a
\* file that is there and makes its loader raise
C1_Witness ==
    /\ Ready
    /\ \E i, j \in done :
          /\ ~dirc[Loads[i].table].exists /\ LoaderRaises(i)
          /\ dirc[Loads[j].table].exists /\ LoaderRaises(j)
          /\ self.attrs[Loads[i].name] = EmptyDataFrame
          /\ self.attrs[Loads[j].name] = EmptyDataFrame

\* C2: read_table on a path that does not exist does not raise: it logs one
\* debug record, returns None and leaves the title as it was.
C2_MissingPathReturnsNone ==
    (call.path # "" /\ ~dirc[call.path].exists) =>
        /\ call.exc = NoExc
        /\ call.ret = NoneValue
        /\ self.title = call.before.title
        /\ self.log = Append(call.before.log,
                             LogRecord("Expected file does not exist", None, None,
                                       call.path))

\* The conflict records of the log, in order
IsConflict(rec) == rec.msg = "File with conflicting title found"

ConflictLog == SelectSeq(self.log, IsConflict)

\* The record each call of calls logs if it conflicts with the first
ExpectedRecords ==
    [j \in 1..Len(self.calls) |->
        LogRecord("File with conflicting title found",
                  Some(self.calls[j]), Some(self.calls[1]), "")]

Disagrees(rec) == rec.title # rec.expected

\* C3: the title is None until _set_title is called and from then on the
\* argument of the first call; a later call with an equal title logs nothing
\* and one with a different title logs one conflict record.
C3_TitleFirstWins ==
    /\ self.calls = <<>> => self.title = None
    /\ self.calls # <<>> => self.title = Some(self.calls[1])
    /\ ConflictLog = SelectSeq(ExpectedRecords, Disagrees)

\* C3's case: after the first call, a call with the same title and a call with
\* another one
C3_Witness ==
    \E j, k \in 2..Len(self.calls) :
        /\ self.calls[j] = self.calls[1]
        /\ self.calls[k] # self.calls[1]
        /\ self.title = Some(self.calls[1])

\* C4: on a built object each of the eight names is bound to a table.
C4_AttributesAreTables ==
    Ready => \A n \in TableNames :
                /\ n \in DOMAIN self.attrs
                /\ self.attrs[n].type = "DataFrame"

(***************************************************************************)
(* Phase_main_tbl.txt: C5 and C10, under SpecPhaseMain, which builds the   *)
(* object over every directory that holds only a Phase_main_tbl.txt: an    *)
(* empty file, or a title line and at most MaxLines lines after it.        *)
(***************************************************************************)
LineChoices == {<<>>, A, B, A \o <<SP>> \o B}

LineSeqs == UNION {[1..n -> LineChoices] : n \in 0..MaxLines}

PhaseMainOnly(text) ==
    Directory(NoFile, NoFile, NoFile, NoFile, NoFile, NoFile, NoFile, File(text))

InitPhaseMain ==
    /\ dirc \in {PhaseMainOnly(PhaseText(<<TitlePrefix \o A>> \o lines)) : lines \in LineSeqs}
                    \cup {PhaseMainOnly(<<>>)}
    /\ self = NewOutput
    /\ done = {}
    /\ escaped = NoExc
    /\ ncalls = 0
    /\ call = NoCall
    /\ NoSummary

SpecPhaseMain == InitPhaseMain /\ [][LoadStep]_vars

\* The text of Phase_main_tbl.txt split on a blank line: the header block,
\* then blocks 1..NBlocks
MainFile == dirc["Phase_main_tbl.txt"]
Segments == SplitOn(MainFile.text, <<NL, NL>>)
NBlocks == Len(Segments) - 1
BlockLines(k) == ReSplitLines(Segments[k + 1])

\* Block k has a phase token on its first line, and a table below it
HasToken(k) == \E i \in 1..Len(BlockLines(k)[1]) : BlockLines(k)[1][i] \notin Whitespace
HasTable(k) == \E i \in 2..Len(BlockLines(k)) : BlockLines(k)[i] # <<>>
Parses(k) == HasToken(k) /\ HasTable(k)

\* The first whitespace-delimited token of the first line of block k
Token(k) == SplitWs(BlockLines(k)[1])[1]

\* The table of block k
BlockTable(k) == ZeroToNan(ReadCsv(Join(Tail(BlockLines(k)), <<NL>>), 0).df)

\* The blocks before the first one that does not parse
Stored == {k \in 1..NBlocks : \A j \in 1..k : Parses(j)}

MainLoaded == 8 \in done /\ MainFile.exists

\* C5 as claimed: when every block parses, phases has exactly one entry per
\* block, keyed by the block's token.
C5_OneEntryPerBlock ==
    (MainLoaded /\ \A k \in 1..NBlocks : Parses(k)) =>
        /\ Cardinality(DOMAIN self.phases) = NBlocks
        /\ \A k \in 1..NBlocks : Token(k) \in DOMAIN self.phases

\* C5 amended: the keys of phases are the tokens of the blocks before the
\* first block that does not parse (of all blocks when each parses), one
\* entry per distinct token, holding the table of the last such block with
\* that token; nothing comes from the header block.
C5_OneEntryPerDistinctToken ==
    MainLoaded =>
        /\ DOMAIN self.phases = {Token(k) : k \in Stored}
        /\ \A k \in Stored :
              (\A j \in Stored : Token(j) = Token(k) => j <= k)
                  => self.phases[Token(k)] = BlockTable(k)

\* C5's case: a header block and two blocks that parse, each with its entry
C5_Witness ==
    /\ MainLoaded
    /\ NBlocks = 2
    /\ Stored = {1, 2}
    /\ Segments[1] # <<>>
    /\ Cardinality(DOMAIN self.phases) = 2

\* C10: when block k is the first that does not parse, phases keeps the
\* entries of blocks 1..k-1 and no other, and phasemain is an empty table.
C10_PartialPhasesOnRaise ==
    (MainLoaded /\ Stored # 1..NBlocks) =>
        /\ self.attrs["phasemain"] = EmptyDataFrame
        /\ \A key \in DOMAIN self.phases :
              \E k \in Stored : Token(k) = key /\ self.phases[key].type = "DataFrame"
        /\ \A k \in Stored : Token(k) \in DOMAIN self.phases

\* C10's case: the second block does not parse, the first is kept
C10_Witness ==
    /\ MainLoaded
    /\ NBlocks >= 2
    /\ Stored = {1}
    /\ DOMAIN self.phases = {Token(1)}
    /\ self.phases[Token(1)] = BlockTable(1)
    /\ self.attrs["phasemain"] = EmptyDataFrame

(***************************************************************************)
(* The order of the eight loads: C9, under SpecOrder, which takes the      *)
(* turns of the loop of __init__ in every order, the claim being about     *)
(* orders other than the one of Loads.                                     *)
(***************************************************************************)
OrderDirectories ==
    {Directory(File(TableText(A, <<Pressure, Mass>>)), solid, NoFile, mass, vol, NoFile,
               File(TableText(A, <<Temperature>>)), main) :
        solid \in SolidFiles,
        mass \in MassFiles,
        vol \in VolFiles,
        main \in {File(PhaseText(<<TitlePrefix \o A, <<>>, A_1, Pressure, <<"1">>,
                                   <<>>, <<>>>>))}}

InitOrder ==
    /\ dirc \in OrderDirectories
    /\ self = NewOutput
    /\ done = {}
    /\ escaped = NoExc
    /\ ncalls = 0
    /\ call = NoCall
    /\ NoSummary

\* A turn of the loop of __init__ on any triple not loaded yet
LoadAny ==
    /\ escaped = NoExc
    /\ \E i \in (1..NLoads) \ done : LoadAt(i)

SpecOrder == InitOrder /\ [][LoadAny]_vars

\* The object __init__ builds over the directory, in the order of Loads
InOrder == MeltsOutput(dirc).self

AllLoaded == done = 1..NLoads /\ escaped = NoExc

\* The titles of the files read_table opens
ReadTableFiles ==
    {Loads[i].table : i \in {j \in 1..NLoads :
        Loads[j].load \notin {"_read_trace", "_read_phasemain"}}}

FileTitles == {_get_table_title(dirc[f].text) : f \in {g \in ReadTableFiles : dirc[g].exists}}

ReducedNameFromZero(i) == IF Find(i, <<"_">>) >= 0 THEN Slice(i, 0, Find(i, <<"_">>)) ELSE i

\* i[: i.find("_")] if i.find("_") > 0 else i
ReducedName(i) == IF Find(i, <<"_">>) > 0 THEN Slice(i, 0, Find(i, <<"_">>)) ELSE i

\* The place of key title in the summary, 0 when it is not a key
KeyIndex(d, title) ==
    IF \E i \in 1..Len(d) : d[i].title = title
    THEN CHOOSE i \in 1..Len(d) : d[i].title = title
    ELSE 0

\* The assignments as they would be if an entry already there were kept
SummarySetDefault(d, title, phases, output) ==
    IF KeyIndex(d, title) = 0
    THEN Append(d, [title |-> title, phases |-> phases, output |-> output])
    ELSE d

\* summary[output.title] = {}, then its "phases" and its "output": a key
\* already there keeps its place and gets the new value
SummarySet(d, title, phases, output) ==
    IF KeyIndex(d, title) = 0
    THEN Append(d, [title |-> title, phases |-> phases, output |-> output])
    ELSE [d EXCEPT ![KeyIndex(d, title)] =
              [title |-> title, phases |-> phases, output |-> output]]

\* The directories a summary is made of
EmptyDirectory == Directory(NoFile, NoFile, NoFile, NoFile, NoFile, NoFile, NoFile, NoFile)

SummaryDirs ==
    {EmptyDirectory,
     Directory(NoFile, NoFile, NoFile, File(TableText(A, <<Pressure, A_1, B>>)),
               NoFile, NoFile, NoFile, NoFile),
     Directory(NoFile, NoFile, NoFile, File(TableText(A, <<Pressure, A_2, _C, B>>)),
               NoFile, NoFile, NoFile, NoFile),
     Directory(NoFile, NoFile, NoFile, NoFile,
               File(TableText(B_1_x, <<Volume, B_1_x, A_1, A_2>>)),
               NoFile, NoFile, NoFile),
     Directory(File(Truncated(B)), NoFile, NoFile, NoFile, NoFile, NoFile, NoFile, NoFile)}

FolderLists == UNION {[1..n -> SummaryDirs] : n \in 0..MaxDirs}

InitSummary ==
    /\ dirc = EmptyDirectory
    /\ self = NewOutput
    /\ done = {}
    /\ escaped = NoExc
    /\ ncalls = 0
    /\ call = NoCall
    /\ folders \in FolderLists
    /\ ix = 1
    /\ summary = <<>>
    /\ sexc = NoExc
    /\ written = None

\* One turn of the for loop of get_experiments_summary
SummaryStep ==
    /\ sexc = NoExc
    /\ ix <= Len(folders)
    /\ \E r \in {MeltsOutput(folders[ix])} :
          IF r.escaped # NoExc
          THEN sexc' = r.escaped /\ summary' = summary
          ELSE /\ sexc' = NoExc
               /\ summary' = SummarySet(summary, r.self.title,
                                        {ReducedName(i) : i \in r.self.phasenames},
                                        r.self)
    /\ ix' = ix + 1
    /\ UNCHANGED <<folders, written>>
    /\ UNCHANGED objVars

\* get_experiments_summary has returned summary
Returned == ix > Len(folders) /\ sexc = NoExc

\* The orders a set can be iterated in
Orders(S) == {seq \in [1..Cardinality(S) -> S] : \A i, j \in 1..Cardinality(S) :
                  seq[i] = seq[j] => i = j}

\* max([len(name) for name in summary]), for a summary with str keys
MaxNameLen(d) ==
    CHOOSE n \in {Len(d[i].title[1]) : i \in 1..Len(d)} :
        \A j \in 1..Len(d) : Len(d[j].title[1]) <= n

\* The texts name + " " * (mnl - len(name) + 2) + ", ".join(D["phases"]) of
\* the entries from place i on, joined by newlines
RECURSIVE PhaseListFrom(_, _, _)
PhaseListFrom(d, mnl, i) ==
    Let({d[i].title[1] \o Spaces(mnl - Len(d[i].title[1]) + 2) \o Join(o, <<",", SP>>) :
            o \in Orders(d[i].phases)}, LAMBDA mine :
        IF i = Len(d) THEN mine
        ELSE {l \o <<NL>> \o rest : l \in mine, rest \in PhaseListFrom(d, mnl, i + 1)})

\* write_summary_phaselist(dir, summary=summary) with the summary returned:
\* max() of an empty list raises ValueError, len(None) raises TypeError, both
\* before the file is opened
WriteSummary ==
    /\ Returned
    /\ written = None
    /\ IF summary = <<>>
       THEN written' = Some([exc |-> "ValueError", text |-> <<>>])
       ELSE IF \E i \in 1..Len(summary) : summary[i].title = None
       THEN written' = Some([exc |-> "TypeError", text |-> <<>>])
       ELSE \E text \in PhaseListFrom(summary, MaxNameLen(summary), 1) :
                written' = Some([exc |-> NoExc, text |-> text])
    /\ UNCHANGED <<folders, ix, summary, sexc>>
    /\ UNCHANGED objVars

NextSummary == SummaryStep \/ WriteSummary

SpecSummary == InitSummary /\ [][NextSummary]_vars

\* The title and the object of the experiment of folder i
TitleOf(i) == MeltsOutput(folders[i]).self.title
OutputOf(i) == MeltsOutput(folders[i]).self

\* C6: the summary returned has one entry per distinct title of the k
\* experiments, each holding the output of the last directory of the list
\* with that title and that output's reduced phase names, and no directory
\* makes the call raise.
C6_OneEntryPerTitle ==
    /\ sexc = NoExc
    /\ Returned =>
          /\ {summary[e].title : e \in 1..Len(summary)} = {TitleOf(i) : i \in 1..Len(folders)}
          /\ Len(summary) = Cardinality({TitleOf(i) : i \in 1..Len(folders)})
          /\ \A e \in 1..Len(summary) : \A i \in 1..Len(folders) :
                (/\ TitleOf(i) = summary[e].title
                 /\ \A j \in 1..Len(folders) : TitleOf(j) = TitleOf(i) => j <= i)
                    => /\ summary[e].output = OutputOf(i)
                       /\ summary[e].phases =
                              {ReducedName(n) : n \in OutputOf(i).phasenames}

\* C6's case: three directories, one without any table and two with the same
\* title and different phases, the later one kept
C6_Witness ==
    /\ Returned
    /\ Len(folders) = 3
    /\ Len(summary) = 2
    /\ TitleOf(1) = None
    /\ TitleOf(2) = TitleOf(3)
    /\ OutputOf(2) # OutputOf(3)
    /\ \E e \in 1..Len(summary) : summary[e].output = OutputOf(3)

\* The places of the underscores of a name
Underscores(n) == {i \in 1..Len(n) : n[i] = "_"}

\* A name without what follows its first underscore, the underscore included
BeforeUnderscore(n) ==
    SubSeq(n, 1, (CHOOSE i \in Underscores(n) : \A j \in Underscores(n) : i <= j) - 1)

\* C7 as claimed: the reduced set holds each phase name cut at its first
\* underscore, a name without underscore unchanged, and nothing else.
C7_CutAtFirstUnderscore ==
    \A e \in 1..Len(summary) :
        summary[e].phases =
            {IF Underscores(n) = {} THEN n ELSE BeforeUnderscore(n) :
                n \in summary[e].output.phasenames}

\* C7 amended: the reduced set holds each phase name cut at its first
\* underscore when that is not its first character, a name without
\* underscore or beginning with one unchanged, and nothing else.
C7_CutAtFirstInnerUnderscore ==
    \A e \in 1..Len(summary) :
        summary[e].phases =
            {IF Underscores(n) = {} \/ 1 \in Underscores(n) THEN n ELSE BeforeUnderscore(n) :
                n \in summary[e].output.phasenames}

\* C7's case: an entry whose names are cut and merged (a_1 and a_2 to a, b_1_x
\* to b) and one with a name cut, a name without underscore and a name that
\* begins with one
C7_Witness ==
    /\ \E e \in 1..Len(summary) :
          /\ summary[e].output.phasenames = {A_1, A_2, B_1_x}
          /\ summary[e].phases = {A, B}
    /\ \E f \in 1..Len(summary) :
          /\ summary[f].output.phasenames = {A_2, _C, B}
          /\ summary[f].phases = {A, _C, B}

\* C8: write_summary_phaselist writes one line per entry of the summary, the
\* title padded with spaces to the length of the longest title plus two, then
\* the entry's reduced phase names joined by ", ".
C8_OneLinePerEntry ==
    written # None =>
        /\ written[1].exc = NoExc
        /\ LET lines == SplitOn(written[1].text, <<NL>>)
               width == MaxNameLen(summary) + 2
           IN  /\ Len(lines) = Len(summary)
               /\ \A e \in 1..Len(summary) :
                     LET name == summary[e].title[1]
                     IN  /\ Len(lines[e]) >= width
                         /\ SubSeq(lines[e], 1, width) =
                                name \o Spaces(width - Len(name))
                         /\ \E o \in Orders(summary[e].phases) :
                               SubSeq(lines[e], width + 1, Len(lines[e])) =
                                   Join(o, <<",", SP>>)

\* What write_summary_phaselist writes when it does not raise is as C8 says
WrittenTextWellFormed ==
    (written # None /\ written[1].exc = NoExc) => C8_OneLinePerEntry

=============================================================================
